---- MODULE Spec2Model ----
(***************************************************************************)
(* Relay pipeline of the WhatsApp bridge: the SQLite message store, the    *)
(* live-event handler that enqueues envelopes to SQS, the SQS poller       *)
(* (recieveMessagesFromQueue) and the forwarders of package logfunction    *)
(* that the poller calls.                                                  *)
(*                                                                         *)
(* Strings that the code builds by concatenation (JIDs) are sequences of   *)
(* tokens: "c1" is <<"c1">>, "g1@g.us" is <<"g1", "@", "g.us">>.           *)
(***************************************************************************)
EXTENDS Integers, Sequences, FiniteSets, TLC

VARIABLES
    proc,         \* the process: "init", "running", "returned" (main returned), "fatal" (log.Fatal)
    bearerToken,  \* os.Getenv("BEARER_TOKEN") once the environment is loaded
    queue,        \* the SQS queue: set of [mid, body]
    nextMid,      \* next SQS message id
    cpc,          \* poller goroutine: "off", "idle" (between cycles), "dispatching" (in the for loop)
    round,        \* the current (or last) cycle: fetched mid -> the attempt made for it, Pending before
    cycleErr,     \* what recieveMessagesFromQueue returned: "none" before the first cycle,
                  \* "pending" in the loop, then "nil", "receive" or "delete"
    chats,        \* table chats: set of rows [jid, name, last_message_time]
    messages,     \* table messages: set of rows [id, chat_jid, sender, content, timestamp, is_from_me]
    lastCall,     \* the last direct MessageStore call and what it returned (history)
    handled,      \* the live events and REST requests handled so far, with what each uploaded
                  \* and submitted to the queue (history)
    tasks         \* handler goroutines in the middle of a call: name -> [pc, ...] with the call's locals

vars == <<proc, bearerToken, queue, nextMid, cpc, round, cycleErr,
          chats, messages, lastCall, handled, tasks>>

-----------------------------------------------------------------------------
(* Bounds of the model *)

InitQueueMax == 2    \* messages already in the durable queue at startup
MaxTime == 2         \* timestamps are 1..MaxTime
MaxConversations == 1 \* conversations of one history sync payload
MaxHistory == 1      \* messages of one conversation of a payload
MaxLimit == 2        \* GetMessages is called with a limit in 0..MaxLimit
MaxSync == 2         \* messages of the conversation of a lone history sync

-----------------------------------------------------------------------------
(* Strings and JIDs *)

Str(u) == <<u>>
EmptyStr == <<>>
JIDString(jid) == <<jid.User, "@", jid.Server>>

Me == "me"

Range(s) == {s[i] : i \in DOMAIN s}

-----------------------------------------------------------------------------
(* The queue envelope and its JSON encoding *)

WALogMessageForQueue(type, from, to, message, file, time) ==
    [Type |-> type, From |-> from, To |-> to, Message |-> message,
     File |-> file, Time |-> time]

\* A string that is not valid UTF-8, and what json.Marshal writes for it:
\* every invalid byte becomes the replacement rune U+FFFD.
BadUTF8 == "caf\\xE9"
ToValidUTF8(str) == IF str = BadUTF8 THEN "caf\\uFFFD" ELSE str

\* json.Marshal: an object of the six tagged members, in field order, the
\* strings coerced to valid UTF-8.
Marshal(m) ==
    [wellFormed |-> TRUE,
     fields |-> << <<"type", ToValidUTF8(m.Type)>>,
                   <<"from", [k \in DOMAIN m.From |-> ToValidUTF8(m.From[k])]>>,
                   <<"to", [k \in DOMAIN m.To |-> ToValidUTF8(m.To[k])]>>,
                   <<"message", ToValidUTF8(m.Message)>>,
                   <<"file", ToValidUTF8(m.File)>>,
                   <<"time", m.Time>> >>]

Member(body, key) == (CHOOSE p \in Range(body.fields) : p[1] = key)[2]

\* An Unmarshal that reads the members "from" and "to" into each other's field.
UnmarshalSwapped(body) ==
    IF ~body.wellFormed
    THEN [err |-> TRUE, message |-> WALogMessageForQueue("", EmptyStr, EmptyStr, "", "", 0)]
    ELSE [err |-> FALSE,
          message |-> WALogMessageForQueue(
              Member(body, "type"), Member(body, "to"), Member(body, "from"),
              Member(body, "message"), Member(body, "file"), Member(body, "time"))]

\* json.Unmarshal into a WALogMessageForQueue: an error for a body that is
\* not JSON, else the members read by name.
Unmarshal(body) ==
    IF ~body.wellFormed
    THEN [err |-> TRUE, message |-> WALogMessageForQueue("", EmptyStr, EmptyStr, "", "", 0)]
    ELSE [err |-> FALSE,
          message |-> WALogMessageForQueue(
              Member(body, "type"), Member(body, "from"), Member(body, "to"),
              Member(body, "message"), Member(body, "file"), Member(body, "time"))]

NotJSON == [wellFormed |-> FALSE, fields |-> <<>>]

-----------------------------------------------------------------------------
(* MessageStore: the SQLite tables chats and messages.                      *)
(* dbOK is FALSE when the storage engine fails the statement.               *)

ChatRow(jid, name, t) == [jid |-> jid, name |-> name, last_message_time |-> t]
MessageRow(id, chatJID, sender, content, t, isFromMe) ==
    [id |-> id, chat_jid |-> chatJID, sender |-> sender, content |-> content,
     timestamp |-> t, is_from_me |-> isFromMe]

\* INSERT OR REPLACE INTO chats, PRIMARY KEY (jid).
StoreChat(table, jid, name, lastMessageTime, dbOK) ==
    IF ~dbOK THEN [err |-> TRUE, chats |-> table]
    ELSE [err |-> FALSE,
          chats |-> {r \in table : r.jid # jid} \cup {ChatRow(jid, name, lastMessageTime)}]

\* INSERT OR IGNORE in place of INSERT OR REPLACE: a row already stored under
\* (id, chat_jid) stays as it is.
StoreMessageKeepFirst(table, chatTable, id, chatJID, sender, content, timestamp, isFromMe, dbOK) ==
    IF content = "" THEN [err |-> FALSE, messages |-> table]
    ELSE IF ~dbOK THEN [err |-> TRUE, messages |-> table]
    ELSE IF chatJID \notin {c.jid : c \in chatTable} THEN [err |-> TRUE, messages |-> table]
    ELSE IF \E r \in table : r.id = id /\ r.chat_jid = chatJID THEN [err |-> FALSE, messages |-> table]
    ELSE [err |-> FALSE,
          messages |-> table \cup {MessageRow(id, chatJID, sender, content, timestamp, isFromMe)}]

\* StoreMessage without the check for empty content.
StoreMessageAnyContent(table, chatTable, id, chatJID, sender, content, timestamp, isFromMe, dbOK) ==
    IF ~dbOK THEN [err |-> TRUE, messages |-> table]
    ELSE IF chatJID \notin {c.jid : c \in chatTable} THEN [err |-> TRUE, messages |-> table]
    ELSE [err |-> FALSE,
          messages |-> {r \in table : ~(r.id = id /\ r.chat_jid = chatJID)}
                         \cup {MessageRow(id, chatJID, sender, content, timestamp, isFromMe)}]

\* INSERT OR REPLACE INTO messages, PRIMARY KEY (id, chat_jid),
\* FOREIGN KEY (chat_jid) REFERENCES chats(jid) with foreign keys enforced.
StoreMessage(table, chatTable, id, chatJID, sender, content, timestamp, isFromMe, dbOK) ==
    IF content = "" THEN [err |-> FALSE, messages |-> table]
    ELSE IF ~dbOK THEN [err |-> TRUE, messages |-> table]
    ELSE IF chatJID \notin {c.jid : c \in chatTable} THEN [err |-> TRUE, messages |-> table]
    ELSE [err |-> FALSE,
          messages |-> {r \in table : ~(r.id = id /\ r.chat_jid = chatJID)}
                         \cup {MessageRow(id, chatJID, sender, content, timestamp, isFromMe)}]

\* The orders in which the elements of a finite set can come.
Perms(S) ==
    {f \in [1..Cardinality(S) -> S] : \A a, b \in 1..Cardinality(S) : f[a] = f[b] => a = b}

\* The struct Message that GetMessages scans a row into.
Message(row) ==
    [Time |-> row.timestamp, Sender |-> row.sender, Content |-> row.content,
     IsFromMe |-> row.is_from_me]

\* GetMessages keeping the first rows in ascending order of timestamp.
GetMessagesOldestFirst(table, chatJID, limit, dbOK) ==
    LET rows == {r \in table : r.chat_jid = chatJID}
        n == IF limit < Cardinality(rows) THEN limit ELSE Cardinality(rows)
        sorted == {p \in Perms(rows) :
                     \A a, b \in DOMAIN p : a < b => p[a].timestamp <= p[b].timestamp}
    IN  IF ~dbOK THEN {[err |-> TRUE, messages |-> <<>>]}
        ELSE {[err |-> FALSE, messages |-> [k \in 1..n |-> Message(p[k])]] : p \in sorted}

\* SELECT sender, content, timestamp, is_from_me FROM messages
\* WHERE chat_jid = ? ORDER BY timestamp DESC LIMIT ?: what the call may
\* return (rows of equal timestamp come in an order the engine chooses).
GetMessages(table, chatJID, limit, dbOK) ==
    LET rows == {r \in table : r.chat_jid = chatJID}
        n == IF limit < Cardinality(rows) THEN limit ELSE Cardinality(rows)
        sorted == {p \in Perms(rows) :
                     \A a, b \in DOMAIN p : a < b => p[a].timestamp >= p[b].timestamp}
    IN  IF ~dbOK THEN {[err |-> TRUE, messages |-> <<>>]}
        ELSE {[err |-> FALSE, messages |-> [k \in 1..n |-> Message(p[k])]] : p \in sorted}

\* SELECT jid, last_message_time FROM chats ORDER BY last_message_time DESC,
\* the rows put into a map[string]time.Time: jid -> last message time.
GetChats(table, dbOK) ==
    IF ~dbOK THEN [err |-> TRUE, chats |-> [j \in {} |-> 0]]
    ELSE [err |-> FALSE,
          chats |-> [j \in {r.jid : r \in table} |->
                        (CHOOSE r \in table : r.jid = j).last_message_time]]

RowsOf(table, id, chatJID) == {r \in table : r.id = id /\ r.chat_jid = chatJID}

\* SELECT name FROM chats WHERE jid = ?, scanned into a string: "" with an
\* error when there is no row.
ExistingName(table, chatJID) ==
    IF \E r \in table : r.jid = chatJID
    THEN [err |-> FALSE, name |-> (CHOOSE r \in table : r.jid = chatJID).name]
    ELSE [err |-> TRUE, name |-> EmptyStr]

-----------------------------------------------------------------------------
(* Chat names *)

Nil == [isNil |-> TRUE, value |-> EmptyStr]
Ptr(v) == [isNil |-> FALSE, value |-> v]

\* GetChatName taking the conversation's Name before its DisplayName.
GetChatNameNameFirst(table, jid, chatJID, conversation, sender, groupInfo, contact) ==
    LET existing == ExistingName(table, chatJID)
        displayName == IF conversation.isNil THEN Nil ELSE conversation.value.DisplayName
        convName == IF conversation.isNil THEN Nil ELSE conversation.value.Name
        fromConv == IF ~convName.isNil /\ convName.value # EmptyStr THEN convName.value
                    ELSE IF ~displayName.isNil /\ displayName.value # EmptyStr THEN displayName.value
                    ELSE EmptyStr
    IN  IF ~existing.err /\ existing.name # EmptyStr THEN existing.name
        ELSE IF jid.Server = "g.us"
        THEN IF fromConv # EmptyStr THEN fromConv
             ELSE IF ~groupInfo.err /\ groupInfo.name # EmptyStr THEN groupInfo.name
             ELSE <<"Group ", jid.User>>
        ELSE IF ~contact.err /\ contact.name # EmptyStr THEN contact.name
             ELSE IF sender # EmptyStr THEN sender
             ELSE Str(jid.User)

\* GetChatName taking the sender string before the contact's full name.
GetChatNameSenderFirst(table, jid, chatJID, conversation, sender, groupInfo, contact) ==
    LET existing == ExistingName(table, chatJID)
        displayName == IF conversation.isNil THEN Nil ELSE conversation.value.DisplayName
        convName == IF conversation.isNil THEN Nil ELSE conversation.value.Name
        fromConv == IF ~displayName.isNil /\ displayName.value # EmptyStr THEN displayName.value
                    ELSE IF ~convName.isNil /\ convName.value # EmptyStr THEN convName.value
                    ELSE EmptyStr
    IN  IF ~existing.err /\ existing.name # EmptyStr THEN existing.name
        ELSE IF jid.Server = "g.us"
        THEN IF fromConv # EmptyStr THEN fromConv
             ELSE IF ~groupInfo.err /\ groupInfo.name # EmptyStr THEN groupInfo.name
             ELSE <<"Group ", jid.User>>
        ELSE IF sender # EmptyStr THEN sender
             ELSE IF ~contact.err /\ contact.name # EmptyStr THEN contact.name
             ELSE Str(jid.User)

\* conversation is Nil or Ptr of a record with the pointer fields DisplayName
\* and Name; groupInfo is what client.GetGroupInfo answers, contact what
\* client.Store.Contacts.GetContact answers (each [err, name]).
GetChatName(table, jid, chatJID, conversation, sender, groupInfo, contact) ==
    LET existing == ExistingName(table, chatJID)
        displayName == IF conversation.isNil THEN Nil ELSE conversation.value.DisplayName
        convName == IF conversation.isNil THEN Nil ELSE conversation.value.Name
        fromConv == IF ~displayName.isNil /\ displayName.value # EmptyStr THEN displayName.value
                    ELSE IF ~convName.isNil /\ convName.value # EmptyStr THEN convName.value
                    ELSE EmptyStr
    IN  IF ~existing.err /\ existing.name # EmptyStr THEN existing.name
        ELSE IF jid.Server = "g.us"
        THEN IF fromConv # EmptyStr THEN fromConv
             ELSE IF ~groupInfo.err /\ groupInfo.name # EmptyStr THEN groupInfo.name
             ELSE <<"Group ", jid.User>>
        ELSE IF ~contact.err /\ contact.name # EmptyStr THEN contact.name
             ELSE IF sender # EmptyStr THEN sender
             ELSE Str(jid.User)

-----------------------------------------------------------------------------
(* The forwarders the poller calls (package logfunction).                   *)
(* loadOK: godotenv.Load() found and parsed .env; token: BEARER_TOKEN;      *)
(* fetch: outcome of the blob GET; post: outcome of the backend POST.       *)
(* An outcome is "neterr" (transport error) or the response's status code;  *)
(* "bodyerr" is a GET whose body fails while io.Copy reads it.              *)
(* Result: ret is "nil", "err" or "fatal" (log.Fatal: the process exits);   *)
(* post is the backend's answer, "none" when no POST was sent.              *)

PostOutcomes == {"neterr", "200", "500"}
FetchOutcomes == {"neterr", "bodyerr", "200", "403"}

Result(ret, didFetch, post) == [ret |-> ret, fetched |-> didFetch, post |-> post]

\* LogMessage(senderPhone, text, recipientPhone, messageTime): the response's
\* status code is never read.
LogMessage(loadOK, token, post) ==
    IF ~loadOK THEN Result("fatal", FALSE, "none")
    ELSE IF token = "" THEN Result("fatal", FALSE, "none")
    ELSE IF post = "neterr" THEN Result("err", FALSE, post)
    ELSE Result("nil", FALSE, post)

\* LogImageMessageSQS: the GET's status code is never read, the POST's is.
LogImageMessageSQS(loadOK, token, fetch, post) ==
    IF ~loadOK THEN Result("err", FALSE, "none")
    ELSE IF token = "" THEN Result("err", FALSE, "none")
    ELSE IF fetch = "neterr" THEN Result("err", TRUE, "none")
    ELSE IF fetch = "bodyerr" THEN Result("err", TRUE, "none")
    ELSE IF post = "neterr" THEN Result("err", TRUE, post)
    ELSE IF post # "200" THEN Result("err", TRUE, post)
    ELSE Result("nil", TRUE, post)

\* LogDocumentMessageSQS (the five-argument one the poller calls): neither
\* status code is read.
LogDocumentMessageSQS(loadOK, token, fetch, post) ==
    IF ~loadOK THEN Result("fatal", FALSE, "none")
    ELSE IF token = "" THEN Result("fatal", FALSE, "none")
    ELSE IF fetch = "neterr" THEN Result("err", TRUE, "none")
    ELSE IF fetch = "bodyerr" THEN Result("err", TRUE, "none")
    ELSE IF post = "neterr" THEN Result("err", TRUE, post)
    ELSE Result("nil", TRUE, post)

\* LogDocumentMessageSQS with eight arguments (a later version, which the
\* poller does not call): both status codes are read.
LogDocumentMessageSQS8(loadOK, token, fetch, post) ==
    IF ~loadOK THEN Result("err", FALSE, "none")
    ELSE IF token = "" THEN Result("err", FALSE, "none")
    ELSE IF fetch = "neterr" THEN Result("err", TRUE, "none")
    ELSE IF fetch = "403" THEN Result("err", TRUE, "none")
    ELSE IF fetch = "bodyerr" THEN Result("err", TRUE, "none")
    ELSE IF post = "neterr" THEN Result("err", TRUE, post)
    ELSE IF post # "200" THEN Result("err", TRUE, post)
    ELSE Result("nil", TRUE, post)

\* The switch on message.Type; "unknown" is the default branch.
Forward(message, loadOK, token, fetch, post) ==
    CASE message.Type = "text" -> LogMessage(loadOK, token, post)
      [] message.Type = "image" -> LogImageMessageSQS(loadOK, token, fetch, post)
      [] message.Type = "document" -> LogDocumentMessageSQS(loadOK, token, fetch, post)
      [] OTHER -> Result("unknown", FALSE, "none")

-----------------------------------------------------------------------------
(* The SQS queue *)
(* A received message stays in the queue, hidden from ReceiveMessage until  *)
(* its visibility timeout runs out. Which messages are hidden at a poll is  *)
(* the queue's choice, so it is part of the choice of what a poll returns.  *)

QueueMids == {q.mid : q \in queue}
QueueMsg(mid) == CHOOSE q \in queue : q.mid = mid

\* A queue that drops a body it already holds (content-based deduplication,
\* which the standard queue the code uses does not do).
SendMessageOnce(q, mid, body) ==
    IF \E x \in q : x.body = body THEN q ELSE q \cup {[mid |-> mid, body |-> body]}

\* sqs SendMessage of one body: a new message with a fresh id.
SendMessage(q, mid, body) == q \cup {[mid |-> mid, body |-> body]}

\* sqs DeleteMessage by receipt handle.
DeleteMessage(q, mid) == {x \in q : x.mid # mid}

MaxNumberOfMessages == 10

-----------------------------------------------------------------------------
(* main: startup, and the poller goroutine it starts *)

\* main up to startRESTServer: it returns when .env cannot be loaded, the
\* queue URL cannot be resolved, or the session store or the connection
\* fails; BEARER_TOKEN is not looked at. The poller goroutine is started on
\* the way.
MainStart ==
    /\ proc = "init"
    /\ \E dotenvOK \in BOOLEAN, queueUrlOK \in BOOLEAN, connectOK \in BOOLEAN :
         IF dotenvOK /\ queueUrlOK /\ connectOK
         THEN proc' = "running" /\ cpc' = "idle"
         ELSE proc' = "returned" /\ cpc' = cpc
    /\ UNCHANGED <<bearerToken, queue, nextMid, round, cycleErr,
                   chats, messages, lastCall, handled, tasks>>

Attempt(ret, post, deleted) == [ret |-> ret, post |-> post, deleted |-> deleted]
Pending == Attempt("pending", "none", FALSE)

\* The messages of output.Messages the for loop has not reached.
Batch == {mid \in DOMAIN round : round[mid] = Pending}

\* The start of a cycle (the first one, or the one after time.Sleep(10 s)):
\* recieveMessagesFromQueue up to the for loop. ReceiveMessage fails, or
\* returns nothing, or returns up to MaxNumberOfMessages messages.
Receive ==
    /\ proc = "running" /\ cpc = "idle"
    /\ \/ /\ cycleErr' = "receive"
          /\ cpc' = "idle"
          /\ round' = [mid \in {} |-> Pending]
       \/ \E S \in SUBSET QueueMids :
            /\ Cardinality(S) <= MaxNumberOfMessages
            /\ round' = [mid \in S |-> Pending]
            /\ cpc' = IF S = {} THEN "idle" ELSE "dispatching"
            /\ cycleErr' = IF S = {} THEN "nil" ELSE "pending"
    /\ UNCHANGED <<proc, bearerToken, queue, nextMid, chats, messages,
                   lastCall, handled, tasks>>

\* A for loop that deletes the message whatever the forwarder returned.
IterationDeletingAlways(body, loadOK, token, fetch, post, deleteOK) ==
    LET u == Unmarshal(body)
        r == Forward(u.message, loadOK, token, fetch, post)
    IN  IF u.err THEN [attempt |-> Attempt("unmarshal", "none", FALSE), next |-> "continue"]
        ELSE IF r.ret = "unknown" THEN [attempt |-> Attempt("unknown", "none", FALSE), next |-> "continue"]
        ELSE IF r.ret = "fatal" THEN [attempt |-> Attempt("fatal", r.post, FALSE), next |-> "exit"]
        ELSE IF deleteOK THEN [attempt |-> Attempt(r.ret, r.post, TRUE), next |-> "continue"]
        ELSE [attempt |-> Attempt(r.ret, r.post, FALSE), next |-> "return"]

\* What one iteration of the for loop does with a message, given what the
\* environment answers: the attempt made, and how the loop goes on:
\* "continue" (next message), "return" (the function returns the delete
\* error) or "exit" (log.Fatal).
Iteration(body, loadOK, token, fetch, post, deleteOK) ==
    LET u == Unmarshal(body)
        r == Forward(u.message, loadOK, token, fetch, post)
    IN  IF u.err THEN [attempt |-> Attempt("unmarshal", "none", FALSE), next |-> "continue"]
        ELSE IF r.ret = "unknown" THEN [attempt |-> Attempt("unknown", "none", FALSE), next |-> "continue"]
        ELSE IF r.ret = "fatal" THEN [attempt |-> Attempt("fatal", r.post, FALSE), next |-> "exit"]
        ELSE IF r.ret = "err" THEN [attempt |-> Attempt("err", r.post, FALSE), next |-> "continue"]
        ELSE IF deleteOK THEN [attempt |-> Attempt("nil", r.post, TRUE), next |-> "continue"]
        ELSE [attempt |-> Attempt("nil", r.post, FALSE), next |-> "return"]

\* One iteration of the for loop of recieveMessagesFromQueue, and the return
\* that follows the last one.
Dispatch ==
    /\ proc = "running" /\ cpc = "dispatching"
    /\ \E mid \in Batch, loadOK \in BOOLEAN, fetch \in FetchOutcomes,
          post \in PostOutcomes, deleteOK \in BOOLEAN :
         LET it == Iteration(QueueMsg(mid).body, loadOK, bearerToken, fetch, post, deleteOK)
             last == Batch = {mid}
         IN  /\ round' = [round EXCEPT ![mid] = it.attempt]
             /\ queue' = IF it.attempt.deleted THEN DeleteMessage(queue, mid) ELSE queue
             /\ proc' = IF it.next = "exit" THEN "fatal" ELSE proc
             /\ cpc' = IF it.next = "return" \/ (it.next = "continue" /\ last)
                       THEN "idle" ELSE cpc
             /\ cycleErr' = IF it.next = "return" THEN "delete"
                            ELSE IF it.next = "continue" /\ last THEN "nil"
                            ELSE cycleErr
    /\ UNCHANGED <<bearerToken, nextMid, chats, messages, lastCall, handled, tasks>>

-----------------------------------------------------------------------------
(* Live message events (events.Message) and their handler *)

JID(user, server) == [User |-> user, Server |-> server]
Contact1 == JID("c1", "s.whatsapp.net")
Group1 == JID("g1", "g.us")
StatusBroadcast == JID("status", "broadcast")
Participant1 == JID("p1", "s.whatsapp.net")
MeJID == JID(Me, "s.whatsapp.net")

\* An extended text message: its own text, and with a ContextInfo (a reply)
\* the text of the message it quotes.
NoExt == [present |-> FALSE, Text |-> "", HasContextInfo |-> FALSE, Quoted |-> ""]
ExtendedText(text, ctx) ==
    [present |-> TRUE, Text |-> text, HasContextInfo |-> ctx,
     Quoted |-> IF ctx THEN "orig" ELSE ""]
NoMedia == [present |-> FALSE, Caption |-> ""]
Media(caption) == [present |-> TRUE, Caption |-> caption]

\* Info.Sender of an event in chat `chat`: the local account for an event
\* from me, else the counterpart of a 1:1 chat and a participant of a group
\* or of the status broadcast.
SenderOf(chat, isFromMe) ==
    IF isFromMe THEN MeJID
    ELSE IF chat = Contact1 THEN Contact1
    ELSE Participant1

\* Try to get text content: the conversation string, else the extended text.
extractTextContent(msg) ==
    IF msg.Conversation # "" THEN msg.Conversation
    ELSE IF msg.ExtendedTextMessage.present THEN msg.ExtendedTextMessage.Text
    ELSE ""

NoName == [err |-> TRUE, name |-> EmptyStr]
Named(n) == [err |-> FALSE, name |-> Str(n)]

\* handleMessage: the tables after it. env.groupInfo and env.contact are the
\* collaborator's answers, env.chatOK and env.messageOK whether the engine
\* executes the two statements.
handleMessage(chatTable, messageTable, msg, env) ==
    LET content == extractTextContent(msg)
        chatJID == JIDString(msg.Chat)
        sender == Str(msg.Sender.User)
        name == GetChatName(chatTable, msg.Chat, chatJID, Nil, sender,
                            env.groupInfo, env.contact)
        c == StoreChat(chatTable, chatJID, name, msg.Timestamp, env.chatOK)
        m == StoreMessage(messageTable, c.chats, msg.ID, chatJID, sender, content,
                          msg.Timestamp, msg.IsFromMe, env.messageOK)
    IN  IF content = "" THEN [chats |-> chatTable, messages |-> messageTable]
        ELSE [chats |-> c.chats, messages |-> m.messages]

\* Route with the two directions of a 1:1 chat exchanged.
RouteReversed(msg) ==
    IF msg.Chat.Server = "g.us"
    THEN [sender |-> Str(msg.Sender.User), recipient |-> JIDString(msg.Chat)]
    ELSE IF msg.IsFromMe
    THEN [sender |-> Str(msg.Chat.User), recipient |-> Str(Me)]
    ELSE [sender |-> Str(Me), recipient |-> Str(msg.Chat.User)]

\* sender and recipient of the envelopes of an event.
Route(msg) ==
    IF msg.Chat.Server = "g.us"
    THEN [sender |-> Str(msg.Sender.User), recipient |-> JIDString(msg.Chat)]
    ELSE IF msg.IsFromMe
    THEN [sender |-> Str(Me), recipient |-> Str(msg.Chat.User)]
    ELSE [sender |-> Str(msg.Chat.User), recipient |-> Str(Me)]

\* Do not save status messages.
IsStatus(r) ==
    \/ r.sender = Str("status") \/ r.recipient = Str("status")
    \/ r.sender = JIDString(StatusBroadcast) \/ r.recipient = JIDString(StatusBroadcast)

\* uploadToS3: the object's URL, or an error.
uploadToS3(key, uploadOK) ==
    IF uploadOK THEN [err |-> FALSE, url |-> key] ELSE [err |-> TRUE, url |-> ""]

DocumentKey == "https://bucket/whatsapp_failed_files/document.pdf"
ImageKey == "https://bucket/whatsapp_failed_files/image.jpg"

\* One sendMessageToQueue call of a handler: the envelope and whether SQS
\* accepted it.
Submission(message, ok) == [message |-> message, ok |-> ok]

\* The document block going on after a failed upload, with the empty URL.
DocumentBlockIgnoringUpload(msg, r, env) ==
    LET up == uploadToS3(DocumentKey, env.document # "upload")
        e == WALogMessageForQueue("document", r.sender, r.recipient,
                                  msg.DocumentMessage.Caption, up.url, msg.Timestamp)
    IN  IF ~msg.DocumentMessage.present THEN [subs |-> <<>>, return |-> FALSE]
        ELSE IF env.document = "download" THEN [subs |-> <<>>, return |-> TRUE]
        ELSE IF env.document = "enqueue" THEN [subs |-> <<Submission(e, FALSE)>>, return |-> TRUE]
        ELSE [subs |-> <<Submission(e, TRUE)>>, return |-> FALSE]

\* The document block: env.document says how far it gets ("download",
\* "upload" and "enqueue" name the step that fails). A failure of any of the
\* three steps returns from the handler.
DocumentBlock(msg, r, env) ==
    LET up == uploadToS3(DocumentKey, env.document # "upload")
        e == WALogMessageForQueue("document", r.sender, r.recipient,
                                  msg.DocumentMessage.Caption, up.url, msg.Timestamp)
    IN  IF ~msg.DocumentMessage.present THEN [subs |-> <<>>, return |-> FALSE]
        ELSE IF env.document = "download" THEN [subs |-> <<>>, return |-> TRUE]
        ELSE IF up.err THEN [subs |-> <<>>, return |-> TRUE]
        ELSE IF env.document = "enqueue" THEN [subs |-> <<Submission(e, FALSE)>>, return |-> TRUE]
        ELSE [subs |-> <<Submission(e, TRUE)>>, return |-> FALSE]

\* The image block: a failing download or upload returns from the handler, a
\* failing enqueue is logged.
ImageBlock(msg, r, env) ==
    LET up == uploadToS3(ImageKey, env.image # "upload")
        e == WALogMessageForQueue("image", r.sender, r.recipient,
                                  msg.ImageMessage.Caption, up.url, msg.Timestamp)
    IN  IF ~msg.ImageMessage.present THEN [subs |-> <<>>, return |-> FALSE]
        ELSE IF env.image = "download" THEN [subs |-> <<>>, return |-> TRUE]
        ELSE IF up.err THEN [subs |-> <<>>, return |-> TRUE]
        ELSE [subs |-> <<Submission(e, env.image # "enqueue")>>, return |-> FALSE]

\* The text block: the conversation string alone.
TextBlock(msg, r, env) ==
    IF msg.Conversation # ""
    THEN <<Submission(WALogMessageForQueue("text", r.sender, r.recipient,
                                           msg.Conversation, "", msg.Timestamp), env.text)>>
    ELSE <<>>

\* The reply block without the check for a ContextInfo.
ReplyBlockAnyExtended(msg, r, env) ==
    IF /\ msg.ExtendedTextMessage.present
       /\ msg.ExtendedTextMessage.Text # ""
    THEN <<Submission(WALogMessageForQueue("text", r.sender, r.recipient,
                                           msg.ExtendedTextMessage.Text, "", msg.Timestamp),
                      env.reply)>>
    ELSE <<>>

\* The reply block carrying the text of the quoted message.
ReplyBlockQuoted(msg, r, env) ==
    IF /\ msg.ExtendedTextMessage.present
       /\ msg.ExtendedTextMessage.HasContextInfo
       /\ msg.ExtendedTextMessage.Text # ""
    THEN <<Submission(WALogMessageForQueue("text", r.sender, r.recipient,
                                           msg.ExtendedTextMessage.Quoted, "", msg.Timestamp),
                      env.reply)>>
    ELSE <<>>

\* The reply block: the text of an extended text message that has a context.
ReplyBlock(msg, r, env) ==
    IF /\ msg.ExtendedTextMessage.present
       /\ msg.ExtendedTextMessage.HasContextInfo
       /\ msg.ExtendedTextMessage.Text # ""
    THEN <<Submission(WALogMessageForQueue("text", r.sender, r.recipient,
                                           msg.ExtendedTextMessage.Text, "", msg.Timestamp),
                      env.reply)>>
    ELSE <<>>

\* A handler that gives up the event when a store write failed.
SubmissionsIfStored(msg, env) ==
    LET r == Route(msg)
        d == DocumentBlock(msg, r, env)
        i == ImageBlock(msg, r, env)
    IN  IF extractTextContent(msg) # "" /\ ~(env.chatOK /\ env.messageOK) THEN <<>>
        ELSE IF IsStatus(r) THEN <<>>
        ELSE IF d.return THEN d.subs
        ELSE IF i.return THEN d.subs \o i.subs
        ELSE d.subs \o i.subs \o TextBlock(msg, r, env) \o ReplyBlock(msg, r, env)

\* The sendMessageToQueue calls the *events.Message case makes, in order.
Submissions(msg, env) ==
    LET r == Route(msg)
        d == DocumentBlock(msg, r, env)
        i == ImageBlock(msg, r, env)
    IN  IF IsStatus(r) THEN <<>>
        ELSE IF d.return THEN d.subs
        ELSE IF i.return THEN d.subs \o i.subs
        ELSE d.subs \o i.subs \o TextBlock(msg, r, env) \o ReplyBlock(msg, r, env)

\* The uploadToS3 calls the *events.Message case makes, in order, with what
\* each returned.
Upload(kind, key, uploadOK) ==
    [kind |-> kind, err |-> uploadToS3(key, uploadOK).err, url |-> uploadToS3(key, uploadOK).url]

Uploads(msg, env) ==
    LET r == Route(msg)
        d == IF msg.DocumentMessage.present /\ env.document # "download"
             THEN <<Upload("document", DocumentKey, env.document # "upload")>> ELSE <<>>
        i == IF msg.ImageMessage.present /\ env.image # "download"
             THEN <<Upload("image", ImageKey, env.image # "upload")>> ELSE <<>>
    IN  IF IsStatus(r) THEN <<>>
        ELSE IF DocumentBlock(msg, r, env).return THEN d
        ELSE d \o i

\* sendMessageToQueue: the marshalled envelope becomes a queue message unless
\* SQS rejects it.
sendMessageToQueue(q, mid, message, sendOK) ==
    IF sendOK THEN [err |-> FALSE, queue |-> SendMessage(q, mid, Marshal(message))]
    ELSE [err |-> TRUE, queue |-> q]

\* The queue and the next message id after the submissions subs.
RECURSIVE Enqueue(_, _, _)
Enqueue(q, mid, subs) ==
    IF subs = <<>> THEN [queue |-> q, nextMid |-> mid]
    ELSE LET s == sendMessageToQueue(q, mid, Head(subs).message, Head(subs).ok)
         IN  Enqueue(s.queue, IF s.err THEN mid ELSE mid + 1, Tail(subs))

\* What the environment may answer while one event is handled; answers that
\* the event never asks for are fixed.
MediaAnswers(m) == IF m.present THEN {"ok", "download", "upload", "enqueue"} ELSE {"ok"}
Environments(msg) ==
    LET stored == extractTextContent(msg) # ""
        relayed == ~IsStatus(Route(msg))
    IN  [groupInfo : IF stored /\ msg.Chat.Server = "g.us" THEN {NoName, Named("Team")} ELSE {NoName},
         contact : IF stored /\ msg.Chat.Server # "g.us" THEN {NoName, Named("Alice")} ELSE {NoName},
         chatOK : IF stored THEN BOOLEAN ELSE {TRUE},
         messageOK : IF stored THEN BOOLEAN ELSE {TRUE},
         document : IF relayed THEN MediaAnswers(msg.DocumentMessage) ELSE {"ok"},
         image : IF relayed THEN MediaAnswers(msg.ImageMessage) ELSE {"ok"},
         text : IF relayed /\ msg.Conversation # "" THEN BOOLEAN ELSE {TRUE},
         reply : IF relayed /\ msg.ExtendedTextMessage.present THEN BOOLEAN ELSE {TRUE}]

\* case *events.Message of the event handler: handleMessage, then the
\* envelopes.
LiveMessage(msg) ==
    /\ proc = "running"
    /\ \E env \in Environments(msg) :
         LET st == handleMessage(chats, messages, msg, env)
             subs == Submissions(msg, env)
             q == Enqueue(queue, nextMid, subs)
         IN  /\ chats' = st.chats
             /\ messages' = st.messages
             /\ queue' = q.queue
             /\ nextMid' = q.nextMid
             /\ handled' = Append(handled, [source |-> "live", msg |-> msg, subs |-> subs,
                                             first |-> nextMid,
                                             uploads |-> Uploads(msg, env)])
    /\ UNCHANGED <<proc, bearerToken, cpc, round, cycleErr, lastCall, tasks>>

-----------------------------------------------------------------------------
(* The poller over a queue that already holds messages *)

From1 == Str("c1")
To1 == Str(Me)
BlobURL == "https://bucket.s3.region.amazonaws.com/key"

\* What the durable queue may hold when the process starts: envelopes of the
\* three kinds, one of a kind the switch does not know, and a body that is
\* not JSON.
InitBodies ==
    { Marshal(WALogMessageForQueue("text", From1, To1, "hi", "", 1)),
      Marshal(WALogMessageForQueue("image", From1, To1, "cap", BlobURL, 1)),
      Marshal(WALogMessageForQueue("document", From1, To1, "cap", BlobURL, 1)),
      Marshal(WALogMessageForQueue("video", From1, To1, "cap", BlobURL, 1)),
      NotJSON }

NoCall == [op |-> "none"]
NoTasks == [h \in {"live", "sync"} |-> [pc |-> "idle"]]

InitRelay ==
    /\ proc = "init"
    /\ bearerToken \in {"", "tok"}
    /\ \E n \in 0..InitQueueMax : \E f \in [1..n -> InitBodies] :
         /\ queue = {[mid |-> i, body |-> f[i]] : i \in 1..n}
         /\ nextMid = n + 1
    /\ cpc = "off"
    /\ round = [mid \in {} |-> Pending]
    /\ cycleErr = "none"
    /\ chats = {} /\ messages = {}
    /\ lastCall = NoCall
    /\ handled = <<>>
    /\ tasks = NoTasks

NextRelay == MainStart \/ Receive \/ Dispatch

SpecRelay == InitRelay /\ [][NextRelay]_vars

-----------------------------------------------------------------------------
(* The event handler, the store and the poller *)

EventMessage(id, chat, isFromMe, t, conv, ext, image, document) ==
    [ID |-> id, Chat |-> chat, Sender |-> SenderOf(chat, isFromMe), IsFromMe |-> isFromMe,
     Timestamp |-> t, Conversation |-> conv, ExtendedTextMessage |-> ext,
     ImageMessage |-> image, DocumentMessage |-> document]

LiveEvents ==
    { EventMessage(id, chat, isFromMe, t, conv, ext, image, document) :
        id \in {"m1"}, chat \in {Contact1, Group1, StatusBroadcast}, isFromMe \in BOOLEAN,
        t \in 1..MaxTime, conv \in {"", "hi"},
        ext \in {NoExt, ExtendedText("re", FALSE), ExtendedText("re", TRUE)},
        image \in {NoMedia, Media("cap")}, document \in {NoMedia, Media("cap")} }

\* The first live event of a run, on a fresh store.
HandleLiveEvent ==
    \E msg \in LiveEvents : handled = <<>> /\ LiveMessage(msg)

InitLive ==
    /\ proc = "init"
    /\ bearerToken \in {"", "tok"}
    /\ queue = {}
    /\ nextMid = 1
    /\ cpc = "off"
    /\ round = [mid \in {} |-> Pending]
    /\ cycleErr = "none"
    /\ chats = {} /\ messages = {}
    /\ lastCall = NoCall
    /\ handled = <<>>
    /\ tasks = NoTasks

NextLive == MainStart \/ HandleLiveEvent

SpecLive == InitLive /\ [][NextLive]_vars

-----------------------------------------------------------------------------
(* One document event delivered twice, the poller running *)

DocumentEvents ==
    { EventMessage("m1", chat, FALSE, 1, conv, NoExt, NoMedia, Media("cap")) :
        chat \in {Contact1}, conv \in {"", "hi"} }

\* A document event arrives; the protocol then delivers the same event again.
DeliverDocument ==
    \E msg \in DocumentEvents :
        /\ \/ handled = <<>>
           \/ Len(handled) = 1 /\ handled[1].msg = msg
        /\ LiveMessage(msg)

NextTwice == MainStart \/ DeliverDocument \/ Receive \/ Dispatch

SpecTwice == InitLive /\ [][NextTwice]_vars

-----------------------------------------------------------------------------
(* MessageStore called directly *)

StoreIDs == {"m1", "m2"}
StoreChatJIDs == {JIDString(Contact1), JIDString(Group1)}

\* (sender, content, timestamp, isFromMe) of a StoreMessage call: two
\* payloads that differ in every column, and one with empty content.
StorePayloads ==
    { <<Str("c1"), "a", 1, FALSE>>, <<Str("p1"), "b", 2, TRUE>>, <<Str("c1"), "", 1, FALSE>> }

\* (name, lastMessageTime) of a StoreChat call.
ChatPayloads == { <<Str("Alice"), 1>>, <<Str("Team"), 2>> }

\* messageStore.StoreChat(jid, name, lastMessageTime)
CallStoreChat ==
    \E jid \in StoreChatJIDs, p \in ChatPayloads, dbOK \in BOOLEAN :
        LET c == StoreChat(chats, jid, p[1], p[2], dbOK)
        IN  /\ chats' = c.chats
            /\ lastCall' = [op |-> "StoreChat", jid |-> jid, name |-> p[1],
                            lastMessageTime |-> p[2], dbOK |-> dbOK, err |-> c.err]
            /\ UNCHANGED <<proc, bearerToken, queue, nextMid, cpc, round, cycleErr,
                           messages, handled, tasks>>

\* messageStore.StoreMessage(id, chatJID, sender, content, timestamp, isFromMe);
\* `replaced` is what the table held under (id, chatJID) before the call.
CallStoreMessage ==
    \E id \in StoreIDs, chatJID \in StoreChatJIDs, p \in StorePayloads, dbOK \in BOOLEAN :
        LET m == StoreMessage(messages, chats, id, chatJID, p[1], p[2], p[3], p[4], dbOK)
        IN  /\ messages' = m.messages
            /\ lastCall' = [op |-> "StoreMessage", id |-> id, chatJID |-> chatJID,
                            sender |-> p[1], content |-> p[2], timestamp |-> p[3],
                            isFromMe |-> p[4], dbOK |-> dbOK, err |-> m.err,
                            replaced |-> RowsOf(messages, id, chatJID)]
            /\ UNCHANGED <<proc, bearerToken, queue, nextMid, cpc, round, cycleErr,
                           chats, handled, tasks>>

\* messageStore.GetMessages(chatJID, limit)
CallGetMessages ==
    \E chatJID \in StoreChatJIDs, limit \in 0..MaxLimit, dbOK \in BOOLEAN :
      \E result \in GetMessages(messages, chatJID, limit, dbOK) :
        /\ lastCall' = [op |-> "GetMessages", chatJID |-> chatJID, limit |-> limit,
                        dbOK |-> dbOK, err |-> result.err, messages |-> result.messages]
        /\ UNCHANGED <<proc, bearerToken, queue, nextMid, cpc, round, cycleErr,
                       chats, messages, handled, tasks>>

\* messageStore.GetChats(), and the order in which a range over the returned
\* map presents its entries: any order.
CallGetChats ==
    \E dbOK \in BOOLEAN :
      LET result == GetChats(chats, dbOK)
      IN  \E order \in Perms(DOMAIN result.chats) :
            /\ lastCall' = [op |-> "GetChats", dbOK |-> dbOK, err |-> result.err,
                            chats |-> result.chats, order |-> order]
            /\ UNCHANGED <<proc, bearerToken, queue, nextMid, cpc, round, cycleErr,
                           chats, messages, handled, tasks>>

NextStore == CallStoreChat \/ CallStoreMessage \/ CallGetMessages \/ CallGetChats

SpecStore == InitLive /\ [][NextStore]_vars

-----------------------------------------------------------------------------
(* Properties of the poller and the forwarders (SpecRelay) *)

\* The messages of the cycle that the for loop has dealt with.
Attempted == {mid \in DOMAIN round : round[mid] # Pending}

\* C1: an envelope the consumer has handled is gone from the queue only when
\* the backend answered its forwarder call with HTTP 200; in every other
\* outcome it is still in the queue.
C1_DeletedOnlyAfter200 ==
    \A mid \in Attempted : mid \notin QueueMids => round[mid].post = "200"

\* C2: an envelope whose forwarder call the backend answered with HTTP 500 is
\* still in the queue after that attempt, to be retried by a later poll.
C2_KeptAfter500 ==
    \A mid \in Attempted : round[mid].post = "500" => mid \in QueueMids

\* C3: a forwarder returns nil only when the backend's status is 200, and an
\* error for every other status.
C3_NilOnlyOn200 ==
    \A mid \in Attempted : round[mid].ret = "nil" => round[mid].post = "200"

\* C4: when a cycle of the running process is over, every envelope of its
\* batch has been dispatched, whatever failed for an earlier one (a failed
\* queue delete included).
C4_WholeBatchDispatched ==
    (proc = "running" /\ cpc = "idle") => Batch = {}

\* C5: no failure of the consumer (a missing BEARER_TOKEN, an unloadable .env,
\* a delete error) terminates the process.
C5_ProcessSurvives == proc # "fatal"

\* C6: with no bearer credential in the environment the process fails at
\* startup: it never runs, the poll loop never polls and dispatches nothing.
C6_NoTokenNoPoll ==
    bearerToken = "" => (proc # "running" /\ cpc = "off" /\ cycleErr = "none"
                         /\ Attempted = {})

-----------------------------------------------------------------------------
(* Properties of the event handler (SpecLive) *)

\* C7: a live event whose envelope sender or recipient is the status identity
\* produces no envelope and no Chat or Message row.
C7_StatusLeavesNothing ==
    \A i \in DOMAIN handled :
        IsStatus(Route(handled[i].msg)) =>
            (handled[i].subs = <<>> /\ queue = {} /\ chats = {} /\ messages = {})

-----------------------------------------------------------------------------
(* Properties of the store (SpecStore) *)

StoredBy(call) ==
    MessageRow(call.id, call.chatJID, call.sender, call.content, call.timestamp,
               call.isFromMe)

\* C8: a StoreMessage call with non-empty content that returns nil leaves
\* exactly one row under its (id, chatId), holding that call's content,
\* sender, timestamp and from-me flag (so the second of two calls for the
\* same pair replaces what the first stored), and leaves the rows of every
\* other pair, and the chats, as they were.
C8_LastWriteWins ==
    [][ (lastCall'.op = "StoreMessage" /\ ~lastCall'.err /\ lastCall'.content # "")
          => /\ RowsOf(messages', lastCall'.id, lastCall'.chatJID) = {StoredBy(lastCall')}
             /\ \A r \in messages \cup messages' :
                  ~(r.id = lastCall'.id /\ r.chat_jid = lastCall'.chatJID)
                      => (r \in messages <=> r \in messages')
             /\ chats' = chats ]_vars

\* The second of two calls for the same pair has returned nil: the row it
\* replaced differs from its own in every column.
C8_Witness ==
    /\ lastCall.op = "StoreMessage" /\ ~lastCall.err /\ lastCall.content # ""
    /\ \E r \in lastCall.replaced :
         /\ r.content # lastCall.content /\ r.sender # lastCall.sender
         /\ r.timestamp # lastCall.timestamp /\ r.is_from_me # lastCall.isFromMe
    /\ \E r \in messages : ~(r.id = lastCall.id /\ r.chat_jid = lastCall.chatJID)

\* C9: a StoreMessage call with empty content returns no error and leaves the
\* store as it was.
C9_EmptyContentIsNoOp ==
    [][ (lastCall'.op = "StoreMessage" /\ lastCall'.content = "")
          => (~lastCall'.err /\ messages' = messages /\ chats' = chats) ]_vars

\* A call with empty content has returned, for a pair that has a row, with
\* the engine failing.
C9_Witness ==
    /\ lastCall.op = "StoreMessage" /\ lastCall.content = "" /\ ~lastCall.err
    /\ ~lastCall.dbOK
    /\ lastCall.replaced # {}
    /\ RowsOf(messages, lastCall.id, lastCall.chatJID) = lastCall.replaced

-----------------------------------------------------------------------------
(* Properties of a redelivered document event (SpecTwice) *)

EventRows(msg) == RowsOf(messages, msg.ID, JIDString(msg.Chat))

Accepted(subs) == {k \in DOMAIN subs : subs[k].ok}

DocumentAccepted(h) ==
    \E k \in DOMAIN h.subs : h.subs[k].ok /\ h.subs[k].message.Type = "document"

-----------------------------------------------------------------------------
(* History sync (events.HistorySync) *)

\* One message of a conversation of the payload: Timestamp 0 is a message
\* without a timestamp; NilHistoryMessage is a nil entry (or one whose
\* Message is nil).
\* hasKey: Message.Key is not nil; FromMe and Participant are the key's
\* fields (a nil FromMe reads as false, a nil Participant as empty), and a
\* message without a key has no id.
KeyedHistoryMessage(hasKey, fromMe, participant, id, t, content) ==
    [isNil |-> FALSE, hasKey |-> hasKey, FromMe |-> hasKey /\ fromMe,
     Participant |-> IF hasKey THEN participant ELSE EmptyStr,
     ID |-> IF hasKey THEN id ELSE "", Timestamp |-> t, Conversation |-> content]
\* A message of a 1:1 chat from the other side.
HistoryMessage(id, t, content) == KeyedHistoryMessage(TRUE, FALSE, EmptyStr, id, t, content)
NilHistoryMessage ==
    [isNil |-> TRUE, hasKey |-> FALSE, FromMe |-> FALSE, Participant |-> EmptyStr,
     ID |-> "", Timestamp |-> 0, Conversation |-> ""]

\* A sender rule that looks at the participant before it looks at FromMe.
HistorySenderParticipantFirst(msg, jid) ==
    IF msg.hasKey /\ msg.Participant # EmptyStr THEN msg.Participant
    ELSE IF msg.hasKey /\ msg.FromMe THEN Str(Me)
    ELSE Str(jid.User)

\* "Determine sender" of the loop over a conversation's messages.
HistorySender(msg, jid) ==
    IF msg.hasKey
    THEN IF ~msg.FromMe /\ msg.Participant # EmptyStr THEN msg.Participant
         ELSE IF msg.FromMe THEN Str(Me)
         ELSE Str(jid.User)
    ELSE Str(jid.User)

\* A conversation: ID is Nil or Ptr of a JID, DisplayName and Name are pointer
\* fields, Messages the messages, the latest first.
Conversation(id, displayName, name, msgs) ==
    [ID |-> id, DisplayName |-> displayName, Name |-> name, Messages |-> msgs]

\* The loop over conversation.Messages from message k on: a nil message, one
\* without text and one without a timestamp are skipped.
RECURSIVE StoreHistoryMessages(_, _, _, _, _, _)
StoreHistoryMessages(messageTable, chatTable, jid, msgs, messageOK, k) ==
    IF k > Len(msgs) THEN messageTable
    ELSE LET msg == msgs[k]
             m == StoreMessage(messageTable, chatTable, msg.ID, JIDString(jid),
                               HistorySender(msg, jid), msg.Conversation, msg.Timestamp,
                               msg.FromMe, messageOK[k])
         IN  IF msg.isNil \/ msg.Conversation = "" \/ msg.Timestamp = 0
             THEN StoreHistoryMessages(messageTable, chatTable, jid, msgs, messageOK, k + 1)
             ELSE StoreHistoryMessages(m.messages, chatTable, jid, msgs, messageOK, k + 1)

\* One iteration of the loop over historySync.Data.Conversations: the tables
\* after it, and the name GetChatName returned when it was called.
SyncConversation(chatTable, messageTable, conversation, env) ==
    LET jid == conversation.ID.value
        chatJID == JIDString(jid)
        name == GetChatName(chatTable, jid, chatJID, Ptr(conversation), EmptyStr,
                            env.groupInfo, env.contact)
        msgs == conversation.Messages
        c == StoreChat(chatTable, chatJID, name, msgs[1].Timestamp, env.chatOK)
        skipped == [chats |-> chatTable, messages |-> messageTable,
                    resolved |-> << <<chatJID, name>> >>]
    IN  IF conversation.ID.isNil
        THEN [chats |-> chatTable, messages |-> messageTable, resolved |-> <<>>]
        ELSE IF Len(msgs) = 0 THEN skipped
        ELSE IF msgs[1].isNil THEN skipped
        ELSE IF msgs[1].Timestamp = 0 THEN skipped
        ELSE [chats |-> c.chats,
              messages |-> StoreHistoryMessages(messageTable, c.chats, jid, msgs,
                                                env.messageOK, 1),
              resolved |-> << <<chatJID, name>> >>]

\* handleHistorySync: the conversations in order, envs[k] what the
\* environment answers during conversation k.
RECURSIVE handleHistorySync(_, _, _, _)
handleHistorySync(chatTable, messageTable, conversations, envs) ==
    IF conversations = <<>>
    THEN [chats |-> chatTable, messages |-> messageTable, resolved |-> <<>>]
    ELSE LET one == SyncConversation(chatTable, messageTable, Head(conversations), Head(envs))
             rest == handleHistorySync(one.chats, one.messages, Tail(conversations), Tail(envs))
         IN  [chats |-> rest.chats, messages |-> rest.messages,
              resolved |-> one.resolved \o rest.resolved]

-----------------------------------------------------------------------------
(* handleMessage and handleHistorySync called in any order *)

SeqsUpTo(S, n) == UNION {[1..k -> S] : k \in 0..n}

\* Text events of a 1:1 chat and of a group, without media.
TextEvents ==
    { EventMessage("m1", chat, FALSE, t, conv, NoExt, NoMedia, NoMedia) :
        chat \in {Contact1, Group1}, t \in 1..MaxTime, conv \in {"", "hi"} }

HistoryMessages ==
    {NilHistoryMessage} \cup
    { HistoryMessage("m1", t, content) : t \in 0..MaxTime, content \in {"", "hi"} }

Conversations ==
    { Conversation(id, names[1], names[2], msgs) :
        id \in {Nil, Ptr(Contact1), Ptr(Group1)},
        names \in { <<Nil, Nil>>, <<Ptr(Str("Disp")), Nil>>, <<Nil, Ptr(Str("Nm"))>> },
        msgs \in SeqsUpTo(HistoryMessages, MaxHistory) }

\* What the environment may answer during one conversation.
SyncEnvironments(conversation) ==
    LET group == ~conversation.ID.isNil /\ conversation.ID.value.Server = "g.us"
        single == ~conversation.ID.isNil /\ conversation.ID.value.Server # "g.us"
        n == Len(conversation.Messages)
    IN  [groupInfo : IF group THEN {NoName, Named("Team")} ELSE {NoName},
         contact : IF single THEN {NoName, Named("Alice")} ELSE {NoName},
         chatOK : IF n > 0 THEN BOOLEAN ELSE {TRUE},
         messageOK : [1..n -> BOOLEAN]]

RECURSIVE SyncEnvironmentSeqs(_)
SyncEnvironmentSeqs(conversations) ==
    IF conversations = <<>> THEN {<<>>}
    ELSE { <<e>> \o rest : e \in SyncEnvironments(Head(conversations)),
                           rest \in SyncEnvironmentSeqs(Tail(conversations)) }

\* handleMessage(client, messageStore, msg, logger)
CallHandleMessage ==
    \E msg \in TextEvents : \E env \in Environments(msg) :
        LET st == handleMessage(chats, messages, msg, env)
            chatJID == JIDString(msg.Chat)
            name == GetChatName(chats, msg.Chat, chatJID, Nil, Str(msg.Sender.User),
                                env.groupInfo, env.contact)
        IN  /\ chats' = st.chats
            /\ messages' = st.messages
            /\ lastCall' = [op |-> "handleMessage",
                            resolved |-> IF extractTextContent(msg) = "" THEN <<>>
                                         ELSE << <<chatJID, name>> >>]
            /\ UNCHANGED <<proc, bearerToken, queue, nextMid, cpc, round, cycleErr,
                           handled, tasks>>

\* handleHistorySync(client, messageStore, historySync, logger)
CallHandleHistorySync ==
    \E conversations \in SeqsUpTo(Conversations, MaxConversations) :
      \E envs \in SyncEnvironmentSeqs(conversations) :
        /\ LET st == handleHistorySync(chats, messages, conversations, envs)
           IN  /\ chats' = st.chats
               /\ messages' = st.messages
               /\ lastCall' = [op |-> "handleHistorySync", resolved |-> st.resolved]
        /\ UNCHANGED <<proc, bearerToken, queue, nextMid, cpc, round, cycleErr,
                       handled, tasks>>

NextHistory == CallHandleMessage \/ CallHandleHistorySync

InitHistory == InitLive /\ bearerToken = "tok"

SpecHistory == InitHistory /\ [][NextHistory]_vars

-----------------------------------------------------------------------------
(* A live-message handler and a history-sync handler running concurrently.  *)
(* Neither handler takes a lock or opens a transaction, so each statement   *)
(* on the store is a step of its own; the engine works without failures.    *)

RaceEvents == {msg \in TextEvents : msg.Timestamp = 1 /\ msg.Conversation # ""}

RaceConversations ==
    {c \in Conversations :
        /\ ~c.ID.isNil /\ c.Name.isNil
        /\ c.Messages = <<HistoryMessage("m1", 1, "hi")>>}

Idle == [pc |-> "idle"]

\* handleMessage up to and including GetChatName.
LiveGetChatName ==
    /\ tasks["live"] = Idle
    /\ \E msg \in RaceEvents : \E env \in Environments(msg) :
         /\ env.chatOK /\ env.messageOK /\ env.text
         /\ tasks' = [tasks EXCEPT !["live"] =
                [pc |-> "StoreChat", msg |-> msg, env |-> env,
                 name |-> GetChatName(chats, msg.Chat, JIDString(msg.Chat), Nil,
                                      Str(msg.Sender.User), env.groupInfo, env.contact)]]
    /\ UNCHANGED <<proc, bearerToken, queue, nextMid, cpc, round, cycleErr,
                   chats, messages, lastCall, handled>>

\* handleMessage: messageStore.StoreChat(chatJID, name, msg.Info.Timestamp)
LiveStoreChat ==
    /\ tasks["live"].pc = "StoreChat"
    /\ LET t == tasks["live"]
       IN  chats' = StoreChat(chats, JIDString(t.msg.Chat), t.name, t.msg.Timestamp,
                              t.env.chatOK).chats
    /\ tasks' = [tasks EXCEPT !["live"].pc = "StoreMessage"]
    /\ UNCHANGED <<proc, bearerToken, queue, nextMid, cpc, round, cycleErr,
                   messages, lastCall, handled>>

\* handleMessage: messageStore.StoreMessage(...), and the return.
LiveStoreMessage ==
    /\ tasks["live"].pc = "StoreMessage"
    /\ LET t == tasks["live"]
       IN  messages' = StoreMessage(messages, chats, t.msg.ID, JIDString(t.msg.Chat),
                                    Str(t.msg.Sender.User), extractTextContent(t.msg),
                                    t.msg.Timestamp, t.msg.IsFromMe, t.env.messageOK).messages
    /\ tasks' = [tasks EXCEPT !["live"] = Idle]
    /\ UNCHANGED <<proc, bearerToken, queue, nextMid, cpc, round, cycleErr,
                   chats, lastCall, handled>>

\* handleHistorySync, one conversation, up to and including GetChatName.
SyncGetChatName ==
    /\ tasks["sync"] = Idle
    /\ \E conversation \in RaceConversations : \E env \in SyncEnvironments(conversation) :
         /\ env.chatOK /\ \A k \in DOMAIN env.messageOK : env.messageOK[k]
         /\ tasks' = [tasks EXCEPT !["sync"] =
                [pc |-> "StoreChat", conversation |-> conversation, env |-> env, k |-> 1,
                 name |-> GetChatName(chats, conversation.ID.value,
                                      JIDString(conversation.ID.value), Ptr(conversation),
                                      EmptyStr, env.groupInfo, env.contact)]]
    /\ UNCHANGED <<proc, bearerToken, queue, nextMid, cpc, round, cycleErr,
                   chats, messages, lastCall, handled>>

\* handleHistorySync: messageStore.StoreChat(chatJID, name, timestamp)
SyncStoreChat ==
    /\ tasks["sync"].pc = "StoreChat"
    /\ LET t == tasks["sync"]
       IN  chats' = StoreChat(chats, JIDString(t.conversation.ID.value), t.name,
                              t.conversation.Messages[1].Timestamp, t.env.chatOK).chats
    /\ tasks' = [tasks EXCEPT !["sync"].pc = "StoreMessage"]
    /\ UNCHANGED <<proc, bearerToken, queue, nextMid, cpc, round, cycleErr,
                   messages, lastCall, handled>>

\* handleHistorySync: one iteration of the loop over the messages; after the
\* last one the conversation is done.
SyncStoreMessage ==
    /\ tasks["sync"].pc = "StoreMessage"
    /\ LET t == tasks["sync"]
           msgs == t.conversation.Messages
       IN  /\ messages' = StoreHistoryMessages(messages, chats, t.conversation.ID.value,
                                               <<msgs[t.k]>>, <<t.env.messageOK[t.k]>>, 1)
           /\ tasks' = [tasks EXCEPT !["sync"] =
                            IF t.k = Len(msgs) THEN Idle ELSE [t EXCEPT !.k = t.k + 1]]
    /\ UNCHANGED <<proc, bearerToken, queue, nextMid, cpc, round, cycleErr,
                   chats, lastCall, handled>>

NextRace ==
    \/ LiveGetChatName \/ LiveStoreChat \/ LiveStoreMessage
    \/ SyncGetChatName \/ SyncStoreChat \/ SyncStoreMessage

SpecRace == InitHistory /\ [][NextRace]_vars

-----------------------------------------------------------------------------
(* GetChatName called directly *)

\* What the chats table may hold for the chat asked about: no row, a row
\* without a name, a row with a name.
NameTables ==
    {{}} \cup { {ChatRow(JIDString(jid), name, 1)} :
                  jid \in {Contact1, Group1}, name \in {EmptyStr, Str("Old")} }

\* The conversation argument: nil, or a conversation whose DisplayName and
\* Name are nil, empty or set.
NameConversations ==
    {Nil} \cup { Ptr(Conversation(Nil, dn, nm, <<>>)) :
                   dn \in {Nil, Ptr(EmptyStr), Ptr(Str("Disp"))},
                   nm \in {Nil, Ptr(EmptyStr), Ptr(Str("Nm"))} }

\* A lookup that fails, one that succeeds without a name, one with a name.
Lookups(n) == {NoName, [err |-> FALSE, name |-> EmptyStr], Named(n)}

\* GetChatName(client, messageStore, jid, chatJID, conversation, sender, logger)
CallGetChatName ==
    \E jid \in {Contact1, Group1}, conversation \in NameConversations,
       sender \in {EmptyStr, Str("p1")}, groupInfo \in Lookups("Team"),
       contact \in Lookups("Alice") :
        /\ lastCall' = [op |-> "GetChatName", jid |-> jid, conversation |-> conversation,
                        sender |-> sender, groupInfo |-> groupInfo, contact |-> contact,
                        name |-> GetChatName(chats, jid, JIDString(jid), conversation,
                                             sender, groupInfo, contact)]
        /\ UNCHANGED <<proc, bearerToken, queue, nextMid, cpc, round, cycleErr,
                       chats, messages, handled, tasks>>

InitNames ==
    /\ proc = "init"
    /\ bearerToken = "tok"
    /\ queue = {}
    /\ nextMid = 1
    /\ cpc = "off"
    /\ round = [mid \in {} |-> Pending]
    /\ cycleErr = "none"
    /\ chats \in NameTables
    /\ messages = {}
    /\ lastCall = NoCall
    /\ handled = <<>>
    /\ tasks = NoTasks

NextNames == CallGetChatName

SpecNames == InitNames /\ [][NextNames]_vars

-----------------------------------------------------------------------------
(* The REST handlers /api/send-image and /api/send-document *)

\* A POST request with a multipart body: its file part ("missing": FormFile
\* returns an error and a nil header; "unreadable": io.ReadAll fails; "ok"),
\* and its form values recipient and message.
SendRequest(file, recipient, message) ==
    [file |-> file, recipient |-> recipient, message |-> message]

SendRequests ==
    { SendRequest(file, recipient, message) :
        file \in {"missing", "unreadable", "ok"}, recipient \in {EmptyStr, Str("c1")},
        message \in {"", "cap", BadUTF8} }

\* What a handler did with a request: the answer's status ("panic" when the
\* handler panicked and the server dropped the connection without an answer),
\* what became of the WhatsApp send, the uploads and the submissions.
Response(status, send, uploads, subs) ==
    [status |-> status, send |-> send, uploads |-> uploads, subs |-> subs]

\* Both media handlers: sent is what the WhatsApp send returned, uploadOK and
\* sendOK what S3 and SQS answer, t is time.Now(). /api/send-document reads
\* header.Filename before it looks at FormFile's error. Nothing is uploaded or
\* submitted for a request that is refused or a send that failed; a failed
\* upload answers 500 without an envelope.
SendMedia(kind, key, req, sent, uploadOK, sendOK, t) ==
    LET up == Upload(kind, key, uploadOK)
        e == WALogMessageForQueue(kind, Str(Me), req.recipient, req.message, up.url, t)
    IN  IF req.file = "missing"
        THEN Response(IF kind = "document" THEN "panic" ELSE "400", "none", <<>>, <<>>)
        ELSE IF req.file = "unreadable" THEN Response("500", "none", <<>>, <<>>)
        ELSE IF req.recipient = EmptyStr \/ req.message = ""
        THEN Response("400", "none", <<>>, <<>>)
        ELSE IF ~sent THEN Response("500", "failed", <<>>, <<>>)
        ELSE IF up.err THEN Response("500", "ok", <<up>>, <<>>)
        ELSE Response("200", "ok", <<up>>, <<Submission(e, sendOK)>>)

\* One request to a media endpoint, the first thing the process handles.
Send(source, kind, key) ==
    /\ handled = <<>>
    /\ \E req \in SendRequests, sent \in BOOLEAN, uploadOK \in BOOLEAN,
          sendOK \in BOOLEAN, t \in 1..MaxTime :
         LET r == SendMedia(kind, key, req, sent, uploadOK, sendOK, t)
             q == Enqueue(queue, nextMid, r.subs)
         IN  /\ queue' = q.queue
             /\ nextMid' = q.nextMid
             /\ handled' = Append(handled, [source |-> source, msg |-> req, subs |-> r.subs,
                                             first |-> nextMid, uploads |-> r.uploads,
                                             status |-> r.status, send |-> r.send])
    /\ UNCHANGED <<proc, bearerToken, cpc, round, cycleErr, chats, messages, lastCall, tasks>>

\* POST /api/send-image
SendImage ==
    /\ proc = "running"
    /\ Send("send-image", "image", ImageKey)

\* POST /api/send-document
SendDocument ==
    /\ proc = "running"
    /\ Send("send-document", "document", DocumentKey)

\* A POST request to /api/send: whether its body decodes as JSON, and the
\* fields Recipient and Message of the decoded SendMessageRequest.
SendMessageRequest(decodeOK, recipient, message) ==
    [decodeOK |-> decodeOK, recipient |-> recipient, message |-> message]

SendMessageRequests ==
    { SendMessageRequest(decodeOK, recipient, message) :
        decodeOK \in BOOLEAN, recipient \in {EmptyStr, Str("c1")},
        message \in {"", "cap", BadUTF8} }

\* The handler of /api/send: a failed enqueue is only logged.
SendText(req, sent, sendOK, t) ==
    LET e == WALogMessageForQueue("text", Str(Me), req.recipient, req.message, "", t)
    IN  IF ~req.decodeOK THEN Response("400", "none", <<>>, <<>>)
        ELSE IF req.recipient = EmptyStr \/ req.message = ""
        THEN Response("400", "none", <<>>, <<>>)
        ELSE IF ~sent THEN Response("500", "failed", <<>>, <<>>)
        ELSE Response("200", "ok", <<>>, <<Submission(e, sendOK)>>)

\* POST /api/send, the first thing the process handles.
SendMessageHandler ==
    /\ proc = "running"
    /\ handled = <<>>
    /\ \E req \in SendMessageRequests, sent \in BOOLEAN, sendOK \in BOOLEAN, t \in 1..MaxTime :
         LET r == SendText(req, sent, sendOK, t)
             q == Enqueue(queue, nextMid, r.subs)
         IN  /\ queue' = q.queue
             /\ nextMid' = q.nextMid
             /\ handled' = Append(handled, [source |-> "send", msg |-> req, subs |-> r.subs,
                                             first |-> nextMid, uploads |-> r.uploads,
                                             status |-> r.status, send |-> r.send])
    /\ UNCHANGED <<proc, bearerToken, cpc, round, cycleErr, chats, messages, lastCall, tasks>>

NextMedia == MainStart \/ HandleLiveEvent \/ SendImage \/ SendDocument \/ SendMessageHandler

SpecMedia == InitLive /\ [][NextMedia]_vars

-----------------------------------------------------------------------------
(* Properties of the handlers' chat rows (SpecHistory) *)

\* C11: for every chat id the stored last-message-time never decreases: after
\* each handleMessage or handleHistorySync call it is greater than or equal
\* to its value before the call.
C11_LastMessageTimeNeverDecreases ==
    [][ \A before \in chats : \A after \in chats' :
          before.jid = after.jid => after.last_message_time >= before.last_message_time ]_vars

\* C12: every name GetChatName resolved during a handler call is the name in
\* the chat's row when the call is over.
C12_ResolvedNameIsStored ==
    lastCall.op \in {"handleMessage", "handleHistorySync"} =>
        \A k \in DOMAIN lastCall.resolved :
            ExistingName(chats, lastCall.resolved[k][1]) =
                [err |-> FALSE, name |-> lastCall.resolved[k][2]]

\* C13: once a non-empty name is stored for a chat id, the stored name of that
\* chat never changes, under every interleaving of a live-message handler and
\* a history-sync handler working on the same chat id.
C13_StoredNameNeverChanges ==
    [][ \A before \in chats : \A after \in chats' :
          (before.jid = after.jid /\ before.name # EmptyStr) => after.name = before.name ]_vars

-----------------------------------------------------------------------------
(* Properties of GetChatName (SpecNames) *)

\* The first non-empty string of a sequence, or the default.
RECURSIVE FirstNonEmpty(_, _)
FirstNonEmpty(strings, default) ==
    IF strings = <<>> THEN default
    ELSE IF Head(strings) # EmptyStr THEN Head(strings)
    ELSE FirstNonEmpty(Tail(strings), default)

\* The string a pointer or a lookup offers: empty when nil or failed.
Offered(p) == IF p.isNil THEN EmptyStr ELSE p.value
Found(lookup) == IF lookup.err THEN EmptyStr ELSE lookup.name

StoredNames(jid) == {r.name : r \in {c \in chats : c.jid = JIDString(jid)}} \ {EmptyStr}

\* C14: for a group chat with no non-empty name in the store, GetChatName
\* returns the first non-empty of the metadata's DisplayName, the metadata's
\* Name and the live group info's name, and otherwise "Group <local id>".
C14_GroupNameOrder ==
    (/\ lastCall.op = "GetChatName"
     /\ lastCall.jid.Server = "g.us"
     /\ StoredNames(lastCall.jid) = {})
    => lastCall.name =
         FirstNonEmpty(
           << IF lastCall.conversation.isNil THEN EmptyStr
              ELSE Offered(lastCall.conversation.value.DisplayName),
              IF lastCall.conversation.isNil THEN EmptyStr
              ELSE Offered(lastCall.conversation.value.Name),
              Found(lastCall.groupInfo) >>,
           <<"Group ", lastCall.jid.User>>)

\* A never-seen group, no metadata, the group info lookup fails: the
\* synthetic name.
C14_Witness ==
    /\ lastCall.op = "GetChatName" /\ lastCall.jid = Group1
    /\ chats = {}
    /\ lastCall.conversation.isNil /\ lastCall.groupInfo.err
    /\ lastCall.name = <<"Group ", "g1">>

\* C15: GetChatName returns the stored name when the store holds a non-empty
\* one for the chat id; otherwise, for a non-group chat, the contact's full
\* name when the lookup succeeds with a non-empty one, else the sender string
\* when non-empty, else the chat's local identifier.
C15_StoredThenContactOrder ==
    lastCall.op = "GetChatName" =>
        /\ StoredNames(lastCall.jid) # {} => lastCall.name \in StoredNames(lastCall.jid)
        /\ (StoredNames(lastCall.jid) = {} /\ lastCall.jid.Server # "g.us") =>
              lastCall.name = FirstNonEmpty(<<Found(lastCall.contact), lastCall.sender>>,
                                            <<lastCall.jid.User>>)

\* A 1:1 chat without a stored name, the contact known and a sender given:
\* the contact's full name wins over the sender.
C15_Witness ==
    /\ lastCall.op = "GetChatName" /\ lastCall.jid = Contact1
    /\ StoredNames(Contact1) = {}
    /\ ~lastCall.contact.err /\ lastCall.contact.name # EmptyStr
    /\ lastCall.sender # EmptyStr
    /\ lastCall.name = lastCall.contact.name

-----------------------------------------------------------------------------
(* Properties of the envelopes of a live event (SpecLive) *)

OfType(subs, type) == {k \in DOMAIN subs : subs[k].message.Type = type}

IsReply(msg) ==
    /\ msg.ExtendedTextMessage.present
    /\ msg.ExtendedTextMessage.HasContextInfo
    /\ msg.ExtendedTextMessage.Text # ""

\* The number of parts of an event that can each give an envelope.
Parts(msg) ==
    (IF msg.DocumentMessage.present THEN 1 ELSE 0)
  + (IF msg.ImageMessage.present THEN 1 ELSE 0)
  + (IF msg.Conversation # "" THEN 1 ELSE 0)
  + (IF IsReply(msg) THEN 1 ELSE 0)

\* C16 as stated: handling one live event enqueues at most one envelope and
\* upserts at most one Message row, whatever the event carries.
C16_AtMostOneEnvelope ==
    \A i \in DOMAIN handled :
        /\ Cardinality(Accepted(handled[i].subs)) <= 1
        /\ Cardinality(messages) <= 1

\* C16, amended: handling one live event submits at most one envelope for
\* each part the event carries (document, image, conversation text, reply
\* text), in that order, so at most four, and upserts at most one Message row
\* and one Chat row.
C16_OneEnvelopePerPart ==
    \A i \in DOMAIN handled :
        LET subs == handled[i].subs
            msg == handled[i].msg
        IN  /\ Len(subs) <= Parts(msg)
            /\ Cardinality(OfType(subs, "document")) <= 1
            /\ Cardinality(OfType(subs, "image")) <= 1
            /\ \A d \in OfType(subs, "document") : \A k \in DOMAIN subs : d <= k
            /\ \A m \in OfType(subs, "image") : \A t \in OfType(subs, "text") : m < t
            /\ DOMAIN subs = OfType(subs, "document") \cup OfType(subs, "image")
                                \cup OfType(subs, "text")
            /\ Cardinality(messages) <= 1 /\ Cardinality(chats) <= 1

\* An event carrying a document, an image, conversation text and a reply has
\* put four envelopes into the queue and one row into messages.
C16_Witness ==
    /\ Len(handled) = 1
    /\ Cardinality(Accepted(handled[1].subs)) = 4
    /\ Cardinality(queue) = 4
    /\ Cardinality(messages) = 1

\* C17: the sender and recipient of every envelope of a live event: in a
\* group, the participant's user id and the full group identifier; in a 1:1
\* chat, the local account and the counterpart when the event is from the
\* local account, the counterpart and the local account otherwise.
C17_SenderRecipient ==
    \A i \in DOMAIN handled : \A k \in DOMAIN handled[i].subs :
        LET msg == handled[i].msg
            e == handled[i].subs[k].message
        IN  /\ msg.Chat.Server = "g.us" =>
                 (e.From = <<msg.Sender.User>> /\ e.To = <<msg.Chat.User, "@", "g.us">>)
            /\ (msg.Chat.Server # "g.us" /\ msg.IsFromMe) =>
                 (e.From = <<Me>> /\ e.To = <<msg.Chat.User>>)
            /\ (msg.Chat.Server # "g.us" /\ ~msg.IsFromMe) =>
                 (e.From = <<msg.Chat.User>> /\ e.To = <<Me>>)

\* An event of the counterpart in a 1:1 chat has given an envelope from the
\* counterpart to the local account.
C17_Witness ==
    /\ Len(handled) = 1
    /\ handled[1].msg.Chat = Contact1 /\ ~handled[1].msg.IsFromMe
    /\ \E k \in Accepted(handled[1].subs) :
         /\ handled[1].subs[k].message.From = <<"c1">>
         /\ handled[1].subs[k].message.To = <<"me">>

\* An event that is a reply and nothing else.
PureReply(msg) ==
    /\ IsReply(msg) /\ msg.Conversation = ""
    /\ ~msg.ImageMessage.present /\ ~msg.DocumentMessage.present

\* C18 as stated: a live event that is a reply gives a text envelope whose
\* body is the text of the quoted message.
C18_BodyIsQuotedText ==
    \A i \in DOMAIN handled :
        (PureReply(handled[i].msg) /\ ~IsStatus(Route(handled[i].msg))) =>
            /\ Len(handled[i].subs) = 1
            /\ handled[i].subs[1].message.Message = handled[i].msg.ExtendedTextMessage.Quoted

\* C18, amended: a live event that is a reply (an extended text message with
\* a ContextInfo and non-empty text) gives one text envelope of its own whose
\* body is the reply's own text and which has no file; the text of the
\* quoted message is in no envelope.
C18_BodyIsReplyText ==
    \A i \in DOMAIN handled :
        LET msg == handled[i].msg
            subs == handled[i].subs
        IN  /\ (PureReply(msg) /\ ~IsStatus(Route(msg))) =>
                 /\ Len(subs) = 1
                 /\ subs[1].message.Type = "text"
                 /\ subs[1].message.Message = msg.ExtendedTextMessage.Text
                 /\ subs[1].message.File = ""
            /\ IsReply(msg) =>
                 \A k \in DOMAIN subs : subs[k].message.Message # msg.ExtendedTextMessage.Quoted

\* A reply has been handled and its envelope, carrying the reply's text, is
\* in the queue.
C18_Witness ==
    /\ Len(handled) = 1
    /\ PureReply(handled[1].msg)
    /\ handled[1].msg.ExtendedTextMessage.Quoted = "orig"
    /\ Accepted(handled[1].subs) = {1}
    /\ \E q \in queue : Unmarshal(q.body).message.Message = "re"

\* C20: when the upload of a live event's document or image succeeds and the
\* enqueue of that media envelope fails, the rest of the event is still
\* processed: its image, text and reply envelopes are still submitted.
C20_RestAfterFailedEnqueue ==
    \A i \in DOMAIN handled :
        LET msg == handled[i].msg
            subs == handled[i].subs
        IN  (\E k \in OfType(subs, "document") \cup OfType(subs, "image") : ~subs[k].ok) =>
              /\ msg.ImageMessage.present => OfType(subs, "image") # {}
              /\ (msg.Conversation # "" \/ IsReply(msg)) => OfType(subs, "text") # {}

-----------------------------------------------------------------------------
(* Properties of media envelopes (SpecMedia) *)

MediaEnvelopes(subs) == OfType(subs, "image") \cup OfType(subs, "document")

\* C19: every image or document envelope submitted to the queue, by the live
\* handler or by a REST send handler, is submitted after a successful upload
\* of its blob and carries the non-empty URL that upload returned; an event
\* or request whose download or upload failed submits no media envelope for
\* that blob.
C19_MediaEnvelopeAfterUpload ==
    \A i \in DOMAIN handled :
        LET subs == handled[i].subs
            ups == handled[i].uploads
        IN  /\ \A k \in MediaEnvelopes(subs) :
                 /\ subs[k].message.File # ""
                 /\ \E u \in DOMAIN ups :
                      /\ ~ups[u].err
                      /\ ups[u].kind = subs[k].message.Type
                      /\ ups[u].url = subs[k].message.File
            /\ \A type \in {"image", "document"} :
                 Cardinality(OfType(subs, type)) <=
                     Cardinality({u \in DOMAIN ups : ups[u].kind = type /\ ~ups[u].err})

\* A request to /api/send-document has uploaded its file and its envelope,
\* carrying the URL, is in the queue.
C19_Witness ==
    /\ Len(handled) = 1
    /\ handled[1].source = "send-document"
    /\ Len(handled[1].uploads) = 1 /\ ~handled[1].uploads[1].err
    /\ \E q \in queue :
         /\ Unmarshal(q.body).message.Type = "document"
         /\ Unmarshal(q.body).message.File = handled[1].uploads[1].url
         /\ Unmarshal(q.body).message.File # ""

-----------------------------------------------------------------------------
(* Store failures and the relay (SpecTwice) *)

\* C21: a failing store write while a live event is handled does not keep the
\* event's envelopes from the queue: every blob that was uploaded gets its
\* envelope submitted, and once the document envelope is accepted the text
\* envelope follows exactly when the event has conversation text, whatever
\* became of the rows. The consumer forwards and deletes by the forwarder's
\* and the queue's answers alone and leaves the rows alone.
C21_StoreFailureDoesNotBlockRelay ==
    /\ [](\A i \in DOMAIN handled :
            LET h == handled[i]
            IN  /\ (\E u \in DOMAIN h.uploads : ~h.uploads[u].err) =>
                     OfType(h.subs, "document") # {}
                /\ DocumentAccepted(h) =>
                     (OfType(h.subs, "text") # {} <=> h.msg.Conversation # ""))
    /\ [](\A mid \in Attempted :
            /\ round[mid].ret \in {"nil", "err", "fatal"}
            /\ round[mid].deleted => (round[mid].ret = "nil" /\ mid \notin QueueMids))
    /\ [][ round' # round => (chats' = chats /\ messages' = messages) ]_vars

\* A document event with text was handled, its store writes failed (no row
\* at all), both its envelopes were accepted, and the consumer has forwarded
\* and deleted one of them.
C21_Witness ==
    /\ Len(handled) = 1
    /\ handled[1].msg.Conversation = "hi"
    /\ chats = {} /\ messages = {}
    /\ Cardinality(Accepted(handled[1].subs)) = 2
    /\ \E mid \in Attempted : round[mid].deleted /\ mid \notin QueueMids

-----------------------------------------------------------------------------
(* The envelope's way through the queue (SpecMedia) *)

IsAccepted(sub) == sub.ok
AcceptedSeq(subs) == SelectSeq(subs, IsAccepted)

\* What recieveMessagesFromQueue deserializes from the queue message that the
\* j-th accepted submission of a handling created.
Dequeued(h, j) == Unmarshal(QueueMsg(h.first + j - 1).body)

ValidStrings(e) == e.Message # BadUTF8 /\ e.File # BadUTF8 /\ e.Type # BadUTF8

\* C22 as stated: every envelope that sendMessageToQueue serialized and
\* enqueued is deserialized from its queue message with all six fields
\* identical to the original's.
C22_RoundTripIdentical ==
    \A i \in DOMAIN handled : \A j \in DOMAIN AcceptedSeq(handled[i].subs) :
        Dequeued(handled[i], j) =
            [err |-> FALSE, message |-> AcceptedSeq(handled[i].subs)[j].message]

\* C22, amended: an envelope whose strings are valid UTF-8 is deserialized
\* from its queue message without error and with all six fields identical to
\* the original's; in a string that is not valid UTF-8 the invalid bytes come
\* back as U+FFFD, the other fields identical.
C22_RoundTripOfValidStrings ==
    \A i \in DOMAIN handled : \A j \in DOMAIN AcceptedSeq(handled[i].subs) :
        LET e == AcceptedSeq(handled[i].subs)[j].message
            d == Dequeued(handled[i], j)
        IN  /\ ~d.err
            /\ ValidStrings(e) => d.message = e
            /\ d.message = [e EXCEPT !.Message = ToValidUTF8(e.Message)]

\* A live event has put a document, an image and two text envelopes into the
\* queue, each with its own fields.
C22_Witness ==
    /\ Len(handled) = 1 /\ handled[1].source = "live"
    /\ Len(AcceptedSeq(handled[1].subs)) = 4
    /\ \A j \in 1..4 :
         /\ ValidStrings(handled[1].subs[j].message)
         /\ Dequeued(handled[1], j).message = handled[1].subs[j].message
    /\ handled[1].subs[1].message.File # handled[1].subs[2].message.File

-----------------------------------------------------------------------------
(* Properties of the store's queries (SpecStore) *)

\* C23: GetChats returns every stored chat, and its result presents the chats
\* in order of last-message-time, newest first.
C23_ChatsNewestFirst ==
    (lastCall.op = "GetChats" /\ ~lastCall.err) =>
        /\ DOMAIN lastCall.chats = {r.jid : r \in chats}
        /\ \A a, b \in DOMAIN lastCall.order :
             a < b => lastCall.chats[lastCall.order[a]] >= lastCall.chats[lastCall.order[b]]

ChatMessages(chatJID) == {Message(r) : r \in {x \in messages : x.chat_jid = chatJID}}

\* C24: GetMessages(chatId, limit), for a limit that is not negative, returns
\* only messages of that chat, at most limit of them and all of them when the
\* chat has no more, ordered by timestamp newest first, and no stored message
\* of the chat that it omits is newer than one it returns.
C24_NewestMessagesOfChat ==
    (lastCall.op = "GetMessages" /\ ~lastCall.err) =>
        LET got == lastCall.messages
            all == ChatMessages(lastCall.chatJID)
        IN  /\ Range(got) \subseteq all
            /\ Len(got) <= lastCall.limit
            /\ Len(got) = lastCall.limit \/ Range(got) = all
            /\ \A a, b \in DOMAIN got : a < b => got[a].Time >= got[b].Time
            /\ \A omitted \in all \ Range(got) : \A m \in Range(got) :
                 omitted.Time <= m.Time

\* The chat holds an older and a newer message, another chat holds one too,
\* and GetMessages with limit 1 has returned the newer one.
C24_Witness ==
    /\ lastCall.op = "GetMessages" /\ ~lastCall.err /\ lastCall.limit = 1
    /\ Cardinality(ChatMessages(lastCall.chatJID)) = 2
    /\ \E r \in messages : r.chat_jid # lastCall.chatJID
    /\ Len(lastCall.messages) = 1
    /\ \E m \in ChatMessages(lastCall.chatJID) : m.Time < lastCall.messages[1].Time

-----------------------------------------------------------------------------
(* The forwarders and the queue (SpecTwice) *)

\* C25: a forwarder call leaves the queue's contents and the Chat and Message
\* rows as they were; a message leaves the queue only in the consumer's loop,
\* in the iteration that handles it, and only after its forwarder has
\* returned without error.
C25_OnlyConsumerDeletesAfterForwarder ==
    [][ /\ \A mid \in Batch :
             (mid \in DOMAIN round' /\ round'[mid] # Pending) =>
                 /\ chats' = chats /\ messages' = messages
                 /\ \/ queue' = queue
                    \/ /\ round'[mid].ret = "nil" /\ round'[mid].deleted
                       /\ queue' = DeleteMessage(queue, mid)
        /\ (\E x \in queue : x \notin queue') =>
             \E mid \in Batch :
                /\ mid \in DOMAIN round' /\ round'[mid].ret = "nil"
                /\ queue' = DeleteMessage(queue, mid) ]_vars

\* Rows are stored; one envelope's forwarder has failed and the envelope is
\* still in the queue, another's has returned nil and that one is gone.
C25_Witness ==
    /\ chats # {} /\ messages # {}
    /\ \E mid \in Attempted : round[mid].ret = "err" /\ mid \in QueueMids
    /\ \E mid \in Attempted : round[mid].ret = "nil" /\ mid \notin QueueMids

-----------------------------------------------------------------------------
(* The media forwarders called on their own (SpecForward) *)

\* What is known of a call once it has returned.
ForwarderCall(op, result, loadOK, fetch, post) ==
    [op |-> op, loadOK |-> loadOK, token |-> bearerToken,
     fetch |-> fetch, post |-> post, result |-> result]

CallLogImageMessageSQS ==
    \E loadOK \in BOOLEAN, fetch \in FetchOutcomes, post \in PostOutcomes :
      /\ lastCall' = ForwarderCall("LogImageMessageSQS",
                        LogImageMessageSQS(loadOK, bearerToken, fetch, post),
                        loadOK, fetch, post)
      /\ UNCHANGED <<proc, bearerToken, queue, nextMid, cpc, round, cycleErr,
                     chats, messages, handled, tasks>>

CallLogDocumentMessageSQS ==
    \E loadOK \in BOOLEAN, fetch \in FetchOutcomes, post \in PostOutcomes :
      /\ lastCall' = ForwarderCall("LogDocumentMessageSQS",
                        LogDocumentMessageSQS(loadOK, bearerToken, fetch, post),
                        loadOK, fetch, post)
      /\ UNCHANGED <<proc, bearerToken, queue, nextMid, cpc, round, cycleErr,
                     chats, messages, handled, tasks>>

CallLogDocumentMessageSQS8 ==
    \E loadOK \in BOOLEAN, fetch \in FetchOutcomes, post \in PostOutcomes :
      /\ lastCall' = ForwarderCall("LogDocumentMessageSQS8",
                        LogDocumentMessageSQS8(loadOK, bearerToken, fetch, post),
                        loadOK, fetch, post)
      /\ UNCHANGED <<proc, bearerToken, queue, nextMid, cpc, round, cycleErr,
                     chats, messages, handled, tasks>>

NextForward ==
    CallLogImageMessageSQS \/ CallLogDocumentMessageSQS \/ CallLogDocumentMessageSQS8

SpecForward == InitLive /\ [][NextForward]_vars

\* C26: an image or document forwarder that has sent its GET for the blob
\* and got a transport error or a status that is not 2xx reports failure and
\* sends no POST to the logging backend.
C26_NoPostAfterFailedFetch ==
    (/\ lastCall.op \in {"LogImageMessageSQS", "LogDocumentMessageSQS",
                         "LogDocumentMessageSQS8"}
     /\ lastCall.result.fetched
     /\ lastCall.fetch \in {"neterr", "403"}) =>
        (lastCall.result.ret = "err" /\ lastCall.result.post = "none")

-----------------------------------------------------------------------------
(* Validation in the REST handlers (SpecMedia) *)

Rest == {"send", "send-image", "send-document"}

\* C27: a POST request to /api/send, /api/send-image or /api/send-document
\* with an empty recipient or an empty message is answered 400, and causes no
\* WhatsApp send, no blob upload and no enqueue.
C27_EmptyFieldIs400 ==
    \A i \in DOMAIN handled :
       LET h == handled[i]
       IN  (h.source \in Rest /\ (h.msg.recipient = EmptyStr \/ h.msg.message = "")) =>
              /\ h.status = "400"
              /\ h.send = "none" /\ h.uploads = <<>> /\ h.subs = <<>>

-----------------------------------------------------------------------------
(* One history sync into an empty store (SpecSync) *)

\* The messages a conversation may hold at position k, each position with a
\* message id of its own: with or without a
\* key, from me or not, with or without a participant, with or without a
\* timestamp.
SyncIDs == <<"m1", "m2", "m3", "m4">>
KeyedHistoryMessages(k) ==
    { KeyedHistoryMessage(hasKey, fromMe, participant, SyncIDs[k], t, "hi") :
        hasKey \in BOOLEAN, fromMe \in BOOLEAN,
        participant \in {EmptyStr, JIDString(Participant1)}, t \in 0..1 }

KeyedConversations ==
    { Conversation(Ptr(jid), Nil, Nil, msgs) :
        jid \in {Contact1, Group1},
        msgs \in { f \in SeqsUpTo(UNION {KeyedHistoryMessages(k) : k \in 1..MaxSync}, MaxSync) :
                     \A k \in DOMAIN f : f[k] \in KeyedHistoryMessages(k) } }

\* handleHistorySync(client, messageStore, historySync, logger) with one
\* conversation, the first thing the process does with its store.
CallSync ==
    /\ lastCall = NoCall
    /\ \E conversation \in KeyedConversations :
         \E env \in SyncEnvironments(conversation) :
           LET st == handleHistorySync(chats, messages, <<conversation>>, <<env>>)
           IN  /\ chats' = st.chats
               /\ messages' = st.messages
               /\ lastCall' = [op |-> "sync", conversation |-> conversation]
    /\ UNCHANGED <<proc, bearerToken, queue, nextMid, cpc, round, cycleErr,
                   handled, tasks>>

NextSync == CallSync

SpecSync == InitHistory /\ [][NextSync]_vars

\* C28: a row stored by the history sync has as sender the local account id
\* when its message is from me, else the message's participant when that is
\* not empty, else the chat's local id; and a historical message whose
\* timestamp is zero is never stored.
C28_HistorySender ==
    lastCall.op = "sync" =>
        LET c == lastCall.conversation
            jid == c.ID.value
        IN  /\ \A row \in messages :
                 \E k \in DOMAIN c.Messages :
                    LET m == c.Messages[k]
                    IN  /\ row.id = m.ID /\ row.timestamp = m.Timestamp
                        /\ row.chat_jid = JIDString(jid)
                        /\ row.is_from_me = m.FromMe
                        /\ row.sender = IF m.FromMe THEN Str(Me)
                                        ELSE IF m.Participant # EmptyStr THEN m.Participant
                                        ELSE Str(jid.User)
            /\ \A row \in messages : row.timestamp # 0
            /\ \A k \in DOMAIN c.Messages :
                 (c.Messages[k].Timestamp = 0 /\ c.Messages[k].hasKey) =>
                     ~\E row \in messages : row.id = c.Messages[k].ID

\* A group conversation was synced: its first message, from me and carrying
\* a participant, is stored with the local account id as sender; its second,
\* without a timestamp, is not stored.
C28_Witness ==
    /\ lastCall.op = "sync"
    /\ Len(lastCall.conversation.Messages) = 2
    /\ lastCall.conversation.Messages[1].FromMe
    /\ lastCall.conversation.Messages[1].Participant # EmptyStr
    /\ lastCall.conversation.Messages[2].Timestamp = 0
    /\ lastCall.conversation.Messages[2].hasKey
    /\ \E row \in messages : row.id = "m1" /\ row.sender = Str(Me) /\ row.is_from_me
    /\ Cardinality(messages) = 1

-----------------------------------------------------------------------------
(* What the first live event leaves in the store and in the queue (SpecLive) *)

LiveNonStatus(h) == h.source = "live" /\ ~IsStatus(Route(h.msg))

\* C29: after the first live message event of a conversation that is not the
\* status broadcast has been handled, whatever its content (text, image only
\* or document only), the store holds a Chat row for the conversation.
C29_ChatRowAfterFirstEvent ==
    \A i \in DOMAIN handled :
       LiveNonStatus(handled[i]) =>
          \E c \in chats : c.jid = JIDString(handled[i].msg.Chat)

\* C30: for every live event that is not a status update and for which
\* handleMessage stored a Message row, a text envelope whose body is the
\* stored content (the conversation string if not empty, else the extended
\* text) was submitted to the queue.
C30_StoredTextIsRelayed ==
    \A i \in DOMAIN handled :
       LET h == handled[i]
       IN  LiveNonStatus(h) =>
              \A row \in messages :
                 (row.id = h.msg.ID /\ row.chat_jid = JIDString(h.msg.Chat)) =>
                     \E k \in DOMAIN h.subs :
                        /\ h.subs[k].message.Type = "text"
                        /\ h.subs[k].message.Message = row.content

====
